---- MODULE Spec2Model ----
(***************************************************************************)
(* Model of src/main.py: the control loop that scans an ordered list of    *)
(* availability zones for the first one that is "available" and then       *)
(* reconciles the AZ constraint of the selected node templates with it.    *)
(*                                                                         *)
(* The remote collaborators (the EC2 zone-status call, the node-template   *)
(* list and update calls) are the environment: each call's outcome is a    *)
(* nondeterministic choice among the outcomes the call can have.           *)
(***************************************************************************)
EXTENDS Integers, Sequences, FiniteSets, TLC

(* ------------------------------ bounds -------------------------------- *)
\* greatest length of AZ_LIST
MaxAzList == 2
\* greatest number of node templates the cluster holds
MaxTemplates == 2
\* the count of completed scan passes stops growing here
MaxPasses == 2

(* --------------------------- value domains ---------------------------- *)
Zones == {"us-east-1a", "us-east-1b"}

TemplateNames == <<"gpu-pool", "cpu-pool", "default-by-castai", "batch-pool">>
Names == {TemplateNames[k] : k \in 1..MaxTemplates}

\* what check_az_state can do: return response['AvailabilityZones'][0]['State']
\* ("unavailable" stands for every state other than "available"), or raise
\* "ProbeError": boto3 raised, or the response held no zone record
ProbeOutcomes == {"available", "unavailable", "ProbeError"}

\* lines 26-29: the zone "" gives the region "", for which boto3 makes no
\* client and describes no zone
ZoneOutcomes(az) == IF az = "" THEN {"ProbeError"} ELSE ProbeOutcomes

\* what requests.get(...) / raise_for_status() / response.json() can do
FetchOutcomes == {"ok", "HTTPError", "RequestException", "ValueError"}

\* what requests.put(...) / raise_for_status() / response.json() can do;
\* "ok" is a 2xx response whose body decodes to the updated template, which
\* is never empty
UpdateOutcomes == {"ok", "HTTPError", "RequestException", "ValueError"}

\* all sequences over S of length lo..hi
SeqsOf(S, lo, hi) == UNION {[1..n -> S] : n \in lo..hi}

\* the zone lists AZ_LIST can name: order is the probe priority, a zone may repeat
AzLists == SeqsOf(Zones, 1, MaxAzList)

\* the template name lists NODE_TEMPLATE_NAMES can name
NameLists == {<<>>} \cup {<<n>> : n \in Names}
                 \cup {<<TemplateNames[1], TemplateNames[2]>>}

\* a string of comma-separated items, as the sequence of its items and commas
RECURSIVE Join(_)
Join(items) ==
    IF Len(items) <= 1 THEN items
    ELSE <<Head(items), ",">> \o Join(Tail(items))

\* the process environment: each variable is unset, or set to a string; a
\* list variable holds a comma-separated string, "" when its list is empty
Environments ==
    {e \in [API_KEY : [present : BOOLEAN, value : {"", "key-1"}],
            CLUSTER_ID : [present : BOOLEAN, value : {"", "cluster-1"}],
            NODE_TEMPLATE_NAMES : [present : BOOLEAN, value : {Join(l) : l \in NameLists}],
            AZ_LIST : [present : BOOLEAN, value : {Join(l) : l \in AzLists \cup {<<>>}}]] :
        /\ ~e.API_KEY.present => e.API_KEY.value = ""
        /\ ~e.CLUSTER_ID.present => e.CLUSTER_ID.value = ""
        /\ ~e.NODE_TEMPLATE_NAMES.present => e.NODE_TEMPLATE_NAMES.value = <<>>
        /\ ~e.AZ_LIST.present => e.AZ_LIST.value = <<>>}

\* the AZ lists a template can hold: none, one zone, several zones
TemplateAzs == SeqsOf(Zones, 0, 1) \cup {<<"us-east-1a", "us-east-1b">>}

\* the 'constraints' object of the k-th template: the 'azs' key may be absent;
\* 'spot' and 'minCpu' stand for the unrelated constraint fields
ConstraintSets(k) ==
    {[azs |-> a, spot |-> (k % 2 = 1), minCpu |-> k] : a \in TemplateAzs}
        \cup {[spot |-> (k % 2 = 1), minCpu |-> k]}

\* the cluster's template collections: 0..MaxTemplates items, names distinct,
\* each item {"template": {"name": ..., "constraints": {...}, ...}}
Catalogs ==
    UNION {{c \in [1..n -> [name : Names,
                            constraints : UNION {ConstraintSets(k) : k \in 1..n}]] :
                \A k \in 1..n : /\ c[k].name = TemplateNames[k]
                                 /\ c[k].constraints \in ConstraintSets(k)}
              : n \in 0..MaxTemplates}

(* ------------------------------- state -------------------------------- *)
VARIABLES
    env,                  \* os.environ
    az_list,              \* main: az_list
    node_template_names,  \* main: node_template_names (tested for membership only)
    catalog,              \* the orchestration service's templates of the cluster
    pc,                   \* where the single thread of control is
    exc,                  \* the uncaught exception that ended the process, or "none"
    i,                    \* find_available_zone: position of `az` in az_list
    probes,               \* probes issued in the current scan pass, in order
    passes,               \* full passes the find_available_zone call in progress has completed
    current_active_az,    \* main: current_active_az
    node_templates,       \* process_clusters: node_templates (mutated in place)
    fetched,              \* node_templates as fetched, before any mutation
    fetch_outcome,        \* outcome of this pass's list call, "" before it
    j,                    \* process_clusters: position of node_template
    updates               \* update calls issued in the current pass, in order

vars == <<env, az_list, node_template_names, catalog, pc, exc, i, probes, passes,
          current_active_az, node_templates, fetched, fetch_outcome, j, updates>>

config == <<env, az_list, node_template_names>>
scan_vars == <<i, probes, passes>>
pass_vars == <<node_templates, fetched, fetch_outcome, j, updates>>

ScanPCs == {"probe", "scan_backoff"}
ReconcilePCs == {"fetch", "evaluate", "update_sleep"}
LoopPCs == ScanPCs \cup ReconcilePCs \cup {"cycle_sleep"}

(* --------------------------- pure functions --------------------------- *)
\* str.split(","), on a string given as the sequence of its items and commas
RECURSIVE Split(_)
Split(str) ==
    IF str = <<>> THEN <<"">>
    ELSE IF Head(str) = "," THEN <<"">> \o Split(Tail(str))
    ELSE IF Len(str) = 1 THEN str
    ELSE <<Head(str)>> \o Split(SubSeq(str, 3, Len(str)))

\* lines 137-138: os.getenv(name) is None and None.split raises AttributeError
GetenvIsNone(e, name) == ~e[name].present

\* line 140: all([api_key, cluster_id, node_template_names, az_list]), the
\* truth value of a string or of a list being that it is not empty
AllSet(e, names, zones) ==
    /\ e.API_KEY.present /\ e.API_KEY.value # ""
    /\ e.CLUSTER_ID.present /\ e.CLUSTER_ID.value # ""
    /\ names # <<>>
    /\ zones # <<>>

\* the elements of a list
Elements(list) == {list[k] : k \in DOMAIN list}

\* dict assignment d[key] = v
DictSet(d, key, v) == [k \in DOMAIN d \cup {key} |-> IF k = key THEN v ELSE d[k]]

\* dict.get(key, default)
DictGet(d, key, default) == IF key \in DOMAIN d THEN d[key] ELSE default

\* a scan that leaves out the head of the list after the first pass
SecondIndex(list) == IF Len(list) > 1 THEN 2 ELSE 1

\* a scan that resumes where the last pass stopped
ResumeIndex(list) == Len(list)

\* line 42, entered again from line 41: the for loop starts at the head of the list
RestartIndex(list) == 1

\* the test of line 50 inverted
IsNotAvailable(state) == state # "available"

\* line 50: state == "available"
IsAvailable(state) == state = "available"

\* the first configured zone taken in place of the one the scan returned
FirstConfiguredZone(available_zone) == <<az_list[1]>>

\* lines 152-158: current_active_az after the scan returned available_zone
ActiveZoneSet(available_zone) ==
    IF available_zone # "" THEN <<available_zone>> ELSE <<>>

\* an except clause that names HTTPError alone
FetchCaughtHttpOnly(outcome) == outcome = "HTTPError"

\* line 72: the exceptions get_node_templates catches
FetchCaught(outcome) == outcome \in {"HTTPError", "RequestException", "ValueError"}

\* lines 66-74: what get_node_templates returns when it returns
get_node_templates(outcome, items) == IF outcome = "ok" THEN items ELSE <<>>

\* line 108: not node_templates
NoTemplates(templates) == templates = <<>>

\* line 115: node_template_data['constraints'].get('azs', [])
AzConstraints(template) == DictGet(template.constraints, "azs", <<>>)

\* the membership test of line 119 left out
SelectedAlways(name) == TRUE

\* line 119: node_template_name in node_template_names
Selected(name) == name \in node_template_names

\* the operands of line 120 in the other order: the subscript comes first
SkipRuleRaisesFirst(azs, active) == Len(active) = 0

\* line 120: current_active_az[0] is evaluated with current_active_az empty
SkipRuleRaises(azs, active) == Len(azs) = 1 /\ Len(active) = 0

\* a skip rule that compares the list with the zone, which are never equal
NeverMatches(azs, active) == FALSE

\* a skip rule with the comparison inverted
MatchesOtherZone(azs, active) == Len(azs) = 1 /\ azs[1] # active[1]

\* a skip rule that looks at the first element only
FirstMatches(azs, active) == Len(azs) >= 1 /\ azs[1] = active[1]

\* line 120: the skip rule
AlreadyMatches(azs, active) == Len(azs) = 1 /\ azs[1] = active[1]

\* a body built anew from the name and the zones
RebuiltTemplate(template, active) ==
    [name |-> template.name, constraints |-> [azs |-> active]]

\* line 92: node_template['template']['constraints']['azs'] = current_active_az
UpdatedTemplate(template, active) ==
    [template EXCEPT !.constraints = DictSet(@, "azs", active)]

\* no except clause, as in check_az_state
UpdateCaughtNothing(outcome) == FALSE

\* an except clause that names HTTPError alone
UpdateCaughtHttpOnly(outcome) == outcome = "HTTPError"

\* line 97: the exceptions update_node_template catches
UpdateCaught(outcome) == outcome \in {"HTTPError", "RequestException", "ValueError"}

\* the sleep of line 128 moved out of the if of line 125
UpdateReturned(outcome) == TRUE

\* lines 96, 99, 125: truthiness of what update_node_template returns
UpdateSucceeded(outcome) == outcome = "ok"

\* the service stores the body of a put it answered with 2xx; it does not
\* store one it rejected; a put whose transport failed may have been stored
MayStore(outcome) == outcome \in {"ok", "ValueError", "RequestException"}
MayDrop(outcome) == outcome \in {"HTTPError", "RequestException"}

\* lines 112, 122, 128-130: the for loop moves on to the next template, or ends
\* and main sleeps (line 162)
AfterTemplate(k, templates) == IF k < Len(templates) THEN "evaluate" ELSE "cycle_sleep"

(* ------------------------------- Init --------------------------------- *)
Init ==
    /\ env \in Environments
    /\ az_list = <<>>
    /\ node_template_names = {}
    /\ catalog \in Catalogs
    /\ pc = "start"
    /\ exc = "none"
    /\ i = 1
    /\ probes = <<>>
    /\ passes = 0
    /\ current_active_az = <<>>
    /\ node_templates = <<>>
    /\ fetched = <<>>
    /\ fetch_outcome = ""
    /\ j = 1
    /\ updates = <<>>

(* ------------------------------ actions ------------------------------- *)
\* lines 134-149: main reads the environment and enters the loop, returns,
\* or is left by the AttributeError that `except ValueError` does not catch
LoadConfig ==
    /\ pc = "start"
    /\ IF GetenvIsNone(env, "NODE_TEMPLATE_NAMES")
         THEN /\ pc' = "terminated"
              /\ exc' = "AttributeError"
              /\ UNCHANGED <<az_list, node_template_names>>
       ELSE IF GetenvIsNone(env, "AZ_LIST")
         THEN /\ pc' = "terminated"
              /\ exc' = "AttributeError"
              /\ node_template_names' = Elements(Split(env.NODE_TEMPLATE_NAMES.value))
              /\ UNCHANGED az_list
       ELSE /\ node_template_names' = Elements(Split(env.NODE_TEMPLATE_NAMES.value))
            /\ az_list' = Split(env.AZ_LIST.value)
            /\ pc' = IF AllSet(env, Split(env.NODE_TEMPLATE_NAMES.value), az_list')
                        THEN "probe" ELSE "exited"
            /\ exc' = exc
    /\ UNCHANGED <<env, catalog, scan_vars, current_active_az, pass_vars>>

\* lines 42-52 (one iteration), with check_az_state (24-32) and, on return,
\* main's lines 153-158; the state file of lines 46-47 is written and never
\* read back, and `probes` keeps what it would hold for this pass
ProbeZone ==
    /\ pc = "probe"
    /\ \E state \in ZoneOutcomes(az_list[i]) :
        /\ probes' = Append(probes, [az |-> az_list[i], state |-> state])
        /\ IF state = "ProbeError"
             THEN \* nothing catches it: it leaves find_available_zone and main
                  /\ pc' = "terminated"
                  /\ exc' = "ProbeError"
                  /\ UNCHANGED <<i, passes, current_active_az>>
             ELSE IF IsAvailable(state)
             THEN /\ current_active_az' = ActiveZoneSet(az_list[i])
                  /\ pc' = "fetch"
                  /\ passes' = 0
                  /\ UNCHANGED <<i, exc>>
             ELSE /\ IF i < Len(az_list)
                       THEN i' = i + 1 /\ pc' = "probe" /\ passes' = passes
                       ELSE i' = i /\ pc' = "scan_backoff"
                            /\ passes' = IF passes < MaxPasses THEN passes + 1 ELSE passes
                  /\ UNCHANGED <<exc, current_active_az>>
    /\ UNCHANGED <<config, catalog, pass_vars>>

\* lines 54-55 and back to 41-42: sleep, then the for loop starts over
ScanBackoff ==
    /\ pc = "scan_backoff"
    /\ pc' = "probe"
    /\ i' = RestartIndex(az_list)
    /\ probes' = <<>>
    /\ UNCHANGED <<config, catalog, exc, passes, current_active_az, pass_vars>>

\* lines 107-110: get_node_templates (57-74) and the early return
FetchTemplates ==
    /\ pc = "fetch"
    /\ \E outcome \in FetchOutcomes :
        /\ fetch_outcome' = outcome
        /\ IF outcome # "ok" /\ ~FetchCaught(outcome)
             THEN /\ pc' = "terminated"
                  /\ exc' = outcome
                  /\ UNCHANGED <<node_templates, fetched>>
             ELSE /\ node_templates' = get_node_templates(outcome, catalog)
                  /\ fetched' = node_templates'
                  /\ pc' = IF NoTemplates(node_templates') THEN "cycle_sleep" ELSE "evaluate"
                  /\ exc' = exc
    /\ j' = 1
    /\ updates' = <<>>
    /\ UNCHANGED <<config, catalog, scan_vars, current_active_az>>

\* lines 112-130 (one iteration), with update_node_template (76-99)
EvaluateTemplate ==
    /\ pc = "evaluate"
    /\ LET node_template == node_templates[j]
           node_az_constraints == AzConstraints(node_template)
           next == AfterTemplate(j, node_templates)
       IN  IF ~Selected(node_template.name)
             THEN /\ pc' = next
                  /\ j' = j + 1
                  /\ UNCHANGED <<catalog, exc, node_templates, updates>>
           ELSE IF SkipRuleRaises(node_az_constraints, current_active_az)
             THEN /\ pc' = "terminated"
                  /\ exc' = "IndexError"
                  /\ UNCHANGED <<catalog, j, node_templates, updates>>
           ELSE IF AlreadyMatches(node_az_constraints, current_active_az)
             THEN /\ pc' = next
                  /\ j' = j + 1
                  /\ UNCHANGED <<catalog, exc, node_templates, updates>>
           ELSE \E outcome \in UpdateOutcomes, stored \in BOOLEAN :
                  LET body == UpdatedTemplate(node_template, current_active_az)
                  IN  /\ (stored => MayStore(outcome)) /\ (~stored => MayDrop(outcome))
                      /\ node_templates' = [node_templates EXCEPT ![j] = body]
                      /\ updates' = Append(updates,
                             [idx |-> j, name |-> node_template.name,
                              body |-> body, outcome |-> outcome])
                      /\ catalog' = IF stored THEN [catalog EXCEPT ![j] = body] ELSE catalog
                      /\ IF outcome # "ok" /\ ~UpdateCaught(outcome)
                           THEN pc' = "terminated" /\ exc' = outcome /\ j' = j
                         ELSE IF UpdateSucceeded(outcome)
                           THEN pc' = "update_sleep" /\ exc' = exc /\ j' = j
                         ELSE pc' = next /\ exc' = exc /\ j' = j + 1
    /\ UNCHANGED <<config, scan_vars, current_active_az, fetched, fetch_outcome>>

\* line 128 and back to 112
UpdateSleep ==
    /\ pc = "update_sleep"
    /\ pc' = AfterTemplate(j, node_templates)
    /\ j' = j + 1
    /\ UNCHANGED <<config, catalog, exc, scan_vars, current_active_az,
                   node_templates, fetched, fetch_outcome, updates>>

\* a loop that scans once and keeps the zone for the later cycles
CycleSleepKeepingZone ==
    /\ pc = "cycle_sleep"
    /\ pc' = "fetch"
    /\ node_templates' = <<>>
    /\ fetched' = <<>>
    /\ fetch_outcome' = ""
    /\ j' = 1
    /\ updates' = <<>>
    /\ UNCHANGED <<config, catalog, exc, scan_vars, current_active_az>>

\* line 162 and back to 151-153: the next cycle starts with a fresh scan
CycleSleep ==
    /\ pc = "cycle_sleep"
    /\ pc' = "probe"
    /\ current_active_az' = <<>>
    /\ i' = 1
    /\ probes' = <<>>
    /\ passes' = 0
    /\ node_templates' = <<>>
    /\ fetched' = <<>>
    /\ fetch_outcome' = ""
    /\ j' = 1
    /\ updates' = <<>>
    /\ UNCHANGED <<config, catalog, exc>>

Next ==
    \/ LoadConfig
    \/ ProbeZone
    \/ ScanBackoff
    \/ FetchTemplates
    \/ EvaluateTemplate
    \/ UpdateSleep
    \/ CycleSleep

Spec == Init /\ [][Next]_vars

\* the one thread of main keeps running while it has a step to take
LiveSpec == Spec /\ WF_vars(Next)

(* --------------------- process_clusters on its own --------------------- *)
\* line 101: the current_active_az a caller can pass
ActiveZoneSets == {<<>>} \cup {<<z>> : z \in Zones}

\* process_clusters reads no environment variable
UnsetEnvironment ==
    [API_KEY |-> [present |-> FALSE, value |-> ""],
     CLUSTER_ID |-> [present |-> FALSE, value |-> ""],
     NODE_TEMPLATE_NAMES |-> [present |-> FALSE, value |-> <<>>],
     AZ_LIST |-> [present |-> FALSE, value |-> <<>>]]

\* lines 101-105: process_clusters is called with a selector and an active
\* zone set
InitReconcile ==
    /\ env = UnsetEnvironment
    /\ az_list = <<>>
    /\ node_template_names \in SUBSET Names
    /\ catalog \in Catalogs
    /\ current_active_az \in ActiveZoneSets
    /\ pc = "fetch"
    /\ exc = "none"
    /\ i = 1
    /\ probes = <<>>
    /\ passes = 0
    /\ node_templates = <<>>
    /\ fetched = <<>>
    /\ fetch_outcome = ""
    /\ j = 1
    /\ updates = <<>>

\* lines 101-105: after process_clusters has returned (the pc of the for
\* loop's end) it is called again, with another active zone set
ProcessClustersCall ==
    /\ pc = "cycle_sleep"
    /\ pc' = "fetch"
    /\ current_active_az' \in ActiveZoneSets
    /\ node_templates' = <<>>
    /\ fetched' = <<>>
    /\ fetch_outcome' = ""
    /\ j' = 1
    /\ updates' = <<>>
    /\ UNCHANGED <<config, catalog, exc, scan_vars>>

NextReconcile ==
    \/ ProcessClustersCall
    \/ FetchTemplates
    \/ EvaluateTemplate
    \/ UpdateSleep

SpecReconcile == InitReconcile /\ [][NextReconcile]_vars

TypeOK ==
    /\ env \in Environments
    /\ az_list \in AzLists \cup {<<>>, <<"">>}
    /\ node_template_names \subseteq Names \cup {""}
    /\ pc \in LoopPCs \cup {"start", "exited", "terminated"}
    /\ pc \in LoopPCs => i \in 1..Len(az_list)
    /\ passes \in 0..MaxPasses
    /\ Len(current_active_az) <= 1

(* ------------------------------ claims -------------------------------- *)
\* the scan of this cycle has returned (its probe log is kept until the cycle ends)
ScanReturned == pc \in ReconcilePCs \cup {"cycle_sleep"}

\* C1: a scan pass that returns has probed exactly the zones of az_list up to
\* the returned one, in list order; every probe before the last reported a
\* state other than "available", the last reported "available", and the zone
\* returned is the one at that position.
C1_FirstAvailableReturned ==
    ScanReturned =>
        LET n == Len(probes)
        IN  /\ n \in 1..Len(az_list)
            /\ \A k \in 1..n : probes[k].az = az_list[k]
            /\ \A k \in 1..(n - 1) : probes[k].state # "available"
            /\ probes[n].state = "available"
            /\ current_active_az = <<az_list[n]>>

\* the scan returned the second of two zones after a pass in which the first
\* was probed and was not available
C1_Witness ==
    /\ pc = "fetch"
    /\ az_list = <<"us-east-1a", "us-east-1b">>
    /\ Len(probes) = 2
    /\ probes[1].state = "unavailable"
    /\ current_active_az = <<az_list[2]>>

\* C2: the scan returns only in a step whose probe reported "available"; a
\* pass that ends without one has probed the whole list and goes to the
\* backoff wait, and the wait is followed by a new pass that starts with an
\* empty probe log at the head of the list, whose first probe is of the first
\* zone; the number of passes is not limited.
C2_ScanRestartsFromHead ==
    [][ /\ (pc \in ScanPCs /\ pc' \notin ScanPCs \cup {"terminated"})
            => /\ pc' = "fetch"
               /\ probes'[Len(probes')].state = "available"
        /\ (pc = "probe" /\ pc' = "scan_backoff")
            => /\ Len(probes') = Len(az_list)
               /\ \A k \in 1..Len(az_list) :
                     probes'[k].az = az_list[k] /\ probes'[k].state # "available"
        /\ (pc = "scan_backoff")
            => pc' = "probe" /\ i' = 1 /\ probes' = <<>>
        /\ (pc = "probe" /\ probes = <<>>)
            => probes'[1].az = az_list[1]
        /\ (pc = "probe" /\ pc' = "scan_backoff" /\ passes < MaxPasses)
            => passes' = passes + 1
      ]_vars

\* after two full passes without an available zone the scan is probing the
\* list again, from its head
C2_Witness ==
    /\ pc = "probe"
    /\ passes = MaxPasses
    /\ Len(az_list) >= 2
    /\ Len(probes) = 1
    /\ probes[1].az = az_list[1]
    /\ probes[1].state = "unavailable"

\* the AZ list of a template: the value of 'azs', empty when the key is absent
AzsOf(template) ==
    IF "azs" \in DOMAIN template.constraints THEN template.constraints.azs ELSE <<>>

\* the update calls of this pass made for the k-th fetched template
UpdatesFor(k) == {u \in DOMAIN updates : updates[u].idx = k}

\* the k-th fetched template is named in the selector
InSelector(k) == fetched[k].name \in node_template_names

\* the reconciliation pass went through all the templates it fetched
PassDone == pc = "cycle_sleep" /\ fetched # <<>>

\* the outcomes of a call that make it fail: HTTP error status, transport
\* error, response that does not decode
FailedOutcomes == {"HTTPError", "RequestException", "ValueError"}

\* C3: in a pass with active zone set [z], no update call is issued for a
\* fetched template that is named in the selector and whose AZ list is
\* exactly [z].
C3_MatchingTemplateNotUpdated ==
    \A k \in DOMAIN fetched :
        ( /\ InSelector(k)
          /\ Len(current_active_az) = 1
          /\ "azs" \in DOMAIN fetched[k].constraints
          /\ fetched[k].constraints.azs = current_active_az )
        => UpdatesFor(k) = {}

\* a finished pass over two selected templates, the first already on the
\* active zone, the second not, and updated
C3_Witness ==
    /\ PassDone
    /\ Len(fetched) = 2
    /\ InSelector(1) /\ InSelector(2)
    /\ AzsOf(fetched[1]) = current_active_az
    /\ AzsOf(fetched[2]) # current_active_az
    /\ Len(updates) = 1

\* C4: every update call of every pass is for a fetched template whose name
\* is in the selector.
C4_OnlySelectedUpdated ==
    \A u \in DOMAIN updates :
        /\ updates[u].idx \in DOMAIN fetched
        /\ updates[u].name = fetched[updates[u].idx].name
        /\ updates[u].name \in node_template_names

\* a finished pass that updated the selected template and left alone the
\* other one, whose AZ list is not the active zone either
C4_Witness ==
    /\ PassDone
    /\ Len(fetched) = 2
    /\ ~InSelector(1) /\ InSelector(2)
    /\ AzsOf(fetched[1]) # current_active_az
    /\ Len(updates) = 1
    /\ updates[1].idx = 2

\* C5: at the end of a pass with one active zone, a fetched template has had
\* exactly one update call if it is selected and its AZ list is not exactly
\* the active zone set, and none otherwise; every submitted body carries the
\* active zone set as its AZ list; so the number of calls is the number of
\* selected templates whose AZ list differs.
C5_EveryNonMatchingUpdatedOnce ==
    (PassDone /\ Len(current_active_az) = 1) =>
        /\ \A k \in DOMAIN fetched :
              Cardinality(UpdatesFor(k)) =
                  IF InSelector(k) /\ AzsOf(fetched[k]) # current_active_az THEN 1 ELSE 0
        /\ \A u \in DOMAIN updates :
              /\ "azs" \in DOMAIN updates[u].body.constraints
              /\ updates[u].body.constraints.azs = current_active_az
        /\ Len(updates) =
              Cardinality({k \in DOMAIN fetched :
                              InSelector(k) /\ AzsOf(fetched[k]) # current_active_az})

\* a finished pass that updated a template holding several zones, the active
\* one first among them, and a template holding none
C5_Witness ==
    /\ PassDone
    /\ Len(fetched) = 2
    /\ Len(AzsOf(fetched[1])) = 2
    /\ AzsOf(fetched[1])[1] = current_active_az[1]
    /\ AzsOf(fetched[2]) = <<>>
    /\ Len(updates) = 2

\* C6: the body of every update call has the fields of the template as
\* fetched in this pass, with the same values, except constraints.azs.
C6_OtherFieldsPreserved ==
    \A u \in DOMAIN updates :
        LET body == updates[u].body
            orig == fetched[updates[u].idx]
        IN  /\ DOMAIN body = DOMAIN orig
            /\ body.name = orig.name
            /\ DOMAIN body.constraints \ {"azs"} = DOMAIN orig.constraints \ {"azs"}
            /\ \A key \in DOMAIN orig.constraints \ {"azs"} :
                  body.constraints[key] = orig.constraints[key]

\* an update call was issued whose body differs from the fetched template
C6_Witness ==
    /\ updates # <<>>
    /\ updates[1].body # fetched[updates[1].idx]
    /\ updates[1].body.constraints.azs # AzsOf(fetched[updates[1].idx])

\* C7: a failed update call does not end the pass: the loop goes on to the
\* templates after it, and at the end of the pass every later template that
\* is selected and does not match has had its update call.
C7_FailedUpdateDoesNotStopPass ==
    \A u \in DOMAIN updates :
        updates[u].outcome \in FailedOutcomes =>
            /\ pc # "terminated"
            /\ pc = "evaluate" => j > updates[u].idx
            /\ PassDone =>
                  \A k \in DOMAIN fetched :
                      ( /\ k > updates[u].idx
                        /\ InSelector(k)
                        /\ AzsOf(fetched[k]) # current_active_az )
                      => UpdatesFor(k) # {}

\* the update of the first template got an undecodable response and the
\* second template was updated in the same pass
C7_Witness ==
    /\ PassDone
    /\ Len(updates) = 2
    /\ updates[1].idx = 1
    /\ updates[1].outcome = "ValueError"
    /\ updates[2].idx = 2

\* one of the four required configuration values is absent or empty
ConfigMissing ==
    \/ ~env.API_KEY.present \/ env.API_KEY.value = ""
    \/ ~env.CLUSTER_ID.present \/ env.CLUSTER_ID.value = ""
    \/ ~env.NODE_TEMPLATE_NAMES.present \/ env.NODE_TEMPLATE_NAMES.value = <<>>
    \/ ~env.AZ_LIST.present \/ env.AZ_LIST.value = <<>>

\* C8: with a complete configuration, a probe that fails leaves the scan
\* running: the zone counts as not available, and the scan is at the next zone
\* of the list or, after the last zone, at the backoff wait.
C8_ProbeFailureSkipsZone ==
    \A k \in DOMAIN probes :
        (~ConfigMissing /\ probes[k].state = "ProbeError") =>
            /\ pc # "terminated"
            /\ k = Len(probes) =>
                  \/ pc = "probe" /\ i = k + 1
                  \/ pc = "scan_backoff" /\ k = Len(az_list)

\* main has entered its loop (it has neither returned at line 146 nor been
\* left by the AttributeError of lines 137-138)
LoopEntered == pc \notin {"start", "exited"} /\ exc # "AttributeError"

\* C9: once entered with a complete configuration, the control loop is always
\* scanning, reconciling or waiting; no error ends it.
C9_LoopNeverTerminates ==
    (LoopEntered /\ ~ConfigMissing) => (pc \in LoopPCs /\ exc = "none")

\* C10: a pass whose list call failed, or returned no templates, has issued
\* no update call and has returned normally to main, which waits for the next
\* cycle; every pass starts without templates of an earlier pass.
C10_FailedFetchIsNoOp ==
    /\ ( \/ fetch_outcome \in FailedOutcomes
         \/ fetch_outcome = "ok" /\ catalog = <<>> )
       => /\ pc = "cycle_sleep"
          /\ exc = "none"
          /\ fetched = <<>>
          /\ updates = <<>>
    /\ pc = "fetch" => node_templates = <<>> /\ updates = <<>> /\ fetch_outcome = ""

\* the list call failed in a cycle in which a selected template is not on the
\* active zone
C10_Witness ==
    /\ pc = "cycle_sleep"
    /\ fetch_outcome = "RequestException"
    /\ \E k \in DOMAIN catalog :
          /\ catalog[k].name \in node_template_names
          /\ AzsOf(catalog[k]) # current_active_az

\* C11: with a required configuration value absent or empty, main returns
\* after logging the error, with no uncaught exception, and never enters the
\* loop: no zone is probed, no templates are fetched, no update is issued.
C11_MissingConfigExitsCleanly ==
    ConfigMissing =>
        /\ pc \in {"start", "exited"}
        /\ exc = "none"
        /\ probes = <<>>
        /\ fetch_outcome = ""
        /\ updates = <<>>

\* C12: the active zone set of a reconciliation pass has at most one element,
\* and a pass run with an empty active zone set issues no update call.
C12_EmptyZoneSetNoUpdates ==
    /\ Len(current_active_az) <= 1
    /\ current_active_az = <<>> => updates = <<>>

\* the k-th fetched template has been through the loop body of this pass
Evaluated(k) == k < j \/ (pc = "update_sleep" /\ k = j)

\* a pass run with an empty active zone set has fetched templates
EmptySetPass == current_active_az = <<>> /\ fetched # <<>>

FirstAvailableIs(z) ==
    /\ ~ConfigMissing
    /\ pc # "start"
    /\ z \in Elements(az_list)
    /\ \A k \in DOMAIN probes : (probes[k].state = "available") <=> (probes[k].az = z)

\* the list call and the update calls of the pass have succeeded
CallsSucceed ==
    /\ fetch_outcome \notin FailedOutcomes
    /\ \A u \in DOMAIN updates : updates[u].outcome = "ok"

\* the selector is loaded and every selected template of the catalog has AZ
\* list exactly [z]
Converged(z) ==
    /\ pc # "start"
    /\ \A k \in DOMAIN catalog :
          catalog[k].name \in node_template_names => AzsOf(catalog[k]) = <<z>>

\* C14: if from some point on z is always the first available zone of the
\* list and the list and update calls succeed, then eventually every selected
\* template of the catalog has AZ list exactly [z].
C14_Convergence ==
    \A z \in Zones :
        (<>[]FirstAvailableIs(z) /\ <>[]CallsSucceed) => <>Converged(z)

\* C14 without probe errors: the same, for runs in which no probe raises
C14_ConvergenceWithoutProbeError ==
    \A z \in Zones :
        ( /\ <>[]FirstAvailableIs(z)
          /\ <>[]CallsSucceed
          /\ [](exc # "ProbeError") ) => <>Converged(z)

\* C15 as stated: a failed update call leaves its template in the catalog as
\* it was fetched.
C15_FailedUpdateLeavesTemplate ==
    \A u \in DOMAIN updates :
        updates[u].outcome \in FailedOutcomes =>
            catalog[updates[u].idx] = fetched[updates[u].idx]

\* C15 as amended: an update call rejected with an HTTP error status leaves
\* its template in the catalog as it was fetched; no failed call ends the
\* loop; a pass works on the catalog as its own list call returned it; and
\* every selected template the pass has been through whose fetched AZ list is
\* not the active zone set has had an update call.
C15_RejectedUpdateLeavesTemplate ==
    /\ \A u \in DOMAIN updates :
          /\ updates[u].outcome = "HTTPError" =>
                catalog[updates[u].idx] = fetched[updates[u].idx]
          /\ updates[u].outcome \in FailedOutcomes => pc \in LoopPCs
    /\ (pc \in {"evaluate", "update_sleep", "cycle_sleep"} /\ fetch_outcome = "ok") =>
          /\ Len(fetched) = Len(catalog)
          /\ \A k \in DOMAIN fetched : UpdatesFor(k) = {} => fetched[k] = catalog[k]
    /\ \A k \in DOMAIN fetched :
          ( /\ Evaluated(k)
            /\ InSelector(k)
            /\ AzsOf(fetched[k]) # current_active_az ) => UpdatesFor(k) # {}

\* the update of a selected template was rejected: the pass is over, the
\* loop runs on and the template is in the catalog as fetched, still not on
\* the active zone
C15_Witness ==
    /\ PassDone
    /\ Len(updates) = 1
    /\ updates[1].outcome = "HTTPError"
    /\ catalog[updates[1].idx] = fetched[updates[1].idx]
    /\ AzsOf(catalog[updates[1].idx]) # current_active_az
    /\ catalog[updates[1].idx].name \in node_template_names

\* C16: a reconciliation pass starts only from a scan step whose probe
\* reported "available", with that zone as its active zone set; the pass keeps
\* that zone and ends in the cycle wait; the cycle wait is followed by a scan
\* that starts at the head of the list with an empty probe log and no active
\* zone, and scanning is entered from nowhere else inside the loop.
C16_StrictAlternation ==
    [][ /\ (pc # "fetch" /\ pc' = "fetch")
            => /\ pc = "probe"
               /\ probes'[Len(probes')].state = "available"
               /\ current_active_az' = <<probes'[Len(probes')].az>>
        /\ (pc \in ReconcilePCs)
            => /\ pc' \in ReconcilePCs \cup {"cycle_sleep"}
               /\ current_active_az' = current_active_az
               /\ probes' = probes
        /\ (pc = "cycle_sleep")
            => /\ pc' = "probe"
               /\ i' = 1
               /\ probes' = <<>>
               /\ current_active_az' = <<>>
        /\ (pc' = "probe" /\ pc \notin ScanPCs \cup {"start"})
            => pc = "cycle_sleep"
      ]_vars

\* a reconciliation pass that issued an update has ended and the loop is in
\* the cycle wait, after a scan that took two probes
C16_Witness ==
    /\ pc = "cycle_sleep"
    /\ Len(probes) = 2
    /\ fetch_outcome = "ok"
    /\ updates # <<>>
    /\ current_active_az = <<az_list[2]>>

\* C17: an update call that succeeded is followed by the inter-update wait,
\* and the wait by the next template; an update call that failed, a skipped
\* template and an unselected template are followed by the next template (or
\* the end of the pass) without the wait.
C17_DelayAfterSuccessOnly ==
    [][ /\ (pc = "evaluate" /\ Len(updates') > Len(updates))
            => IF updates'[Len(updates')].outcome = "ok"
                 THEN pc' = "update_sleep" /\ j' = j
                 ELSE pc' \in {"evaluate", "cycle_sleep"} /\ j' = j + 1
        /\ (pc = "evaluate" /\ Len(updates') = Len(updates))
            => pc' \in {"evaluate", "cycle_sleep"} /\ j' = j + 1
        /\ (pc = "update_sleep")
            => pc' \in {"evaluate", "cycle_sleep"} /\ j' = j + 1
      ]_vars

\* the first update failed and the second template was evaluated at once;
\* its update succeeded and the pass is in the inter-update wait
C17_Witness ==
    /\ pc = "update_sleep"
    /\ Len(updates) = 2
    /\ updates[1].outcome = "HTTPError"
    /\ updates[2].outcome = "ok"
    /\ j = 2

\* the remote calls a step issues: probes, list calls, update calls
ProbesIssued == IF pc = "probe" /\ probes' # probes THEN 1 ELSE 0
FetchesIssued == IF pc = "fetch" /\ fetch_outcome' # "" THEN 1 ELSE 0
UpdatesIssued == IF pc = "evaluate" THEN Len(updates') - Len(updates) ELSE 0

\* C18: every step issues at most one remote call, which has returned when
\* the step ends; the n-th probe of a pass is of the n-th zone of the list;
\* the update calls of a pass are in the order of the fetched templates.
C18_CallsSequential ==
    [][ /\ ProbesIssued + FetchesIssued + UpdatesIssued <= 1
        /\ ProbesIssued = 1
            => /\ Len(probes') = Len(probes) + 1
               /\ probes'[Len(probes')].az = az_list[Len(probes')]
        /\ UpdatesIssued = 1
            => \A u \in DOMAIN updates :
                  updates[u].idx < updates'[Len(updates')].idx
      ]_vars

\* a cycle with two probes, in list order, and two update calls, in fetch order
C18_Witness ==
    /\ PassDone
    /\ az_list = <<"us-east-1a", "us-east-1b">>
    /\ Len(probes) = 2
    /\ Len(updates) = 2
    /\ updates[1].idx = 1
    /\ updates[2].idx = 2

\* C19: in main's loop a reconciliation pass always has a one-element active
\* zone set, and every update call carries exactly that zone: the zone of the
\* last probe of the scan's final pass, which reported "available", every
\* probe before it in that pass being of the zones ahead of it in the list
\* and reporting another state.
C19_UpdatesCarryScannedZone ==
    /\ pc \in ReconcilePCs => Len(current_active_az) = 1
    /\ \A u \in DOMAIN updates :
          LET azs == updates[u].body.constraints.azs
              n == Len(probes)
          IN  /\ Len(azs) = 1
              /\ azs[1] \in Elements(az_list)
              /\ n \in 1..Len(az_list)
              /\ azs[1] = az_list[n]
              /\ probes[n].az = azs[1]
              /\ probes[n].state = "available"
              /\ \A k \in 1..(n - 1) :
                    probes[k].az = az_list[k] /\ probes[k].state # "available"

\* an update carries the second zone of the list, found available after the
\* first was not
C19_Witness ==
    /\ az_list = <<"us-east-1a", "us-east-1b">>
    /\ updates # <<>>
    /\ updates[1].body.constraints.azs = <<"us-east-1b">>
    /\ probes[1].state = "unavailable"

\* C20: while every selected template of the catalog has AZ list exactly the
\* active zone, no step of the reconciliation pass issues an update call or
\* changes the catalog; scanning and waiting never change the catalog.
C20_Quiescence ==
    [][ /\ ( /\ pc \in ReconcilePCs
              /\ Len(current_active_az) = 1
              /\ Converged(current_active_az[1]) )
            => /\ Len(updates') <= Len(updates)
               /\ catalog' = catalog
        /\ (pc \in ScanPCs \cup {"cycle_sleep"}) => catalog' = catalog
      ]_vars

\* a whole pass over two selected templates, both on the active zone, has
\* issued no update call
C20_Witness ==
    /\ PassDone
    /\ Len(fetched) = 2
    /\ InSelector(1) /\ InSelector(2)
    /\ Len(current_active_az) = 1
    /\ Converged(current_active_az[1])
    /\ fetched = catalog
    /\ updates = <<>>

====
